---- MODULE Spec2Model ----
(***************************************************************************)
(* Proactive private chat plugin (src/plugin.py): the cooldown tracker     *)
(* PrivateChatCooldown, the dispatcher send_private_message, and its two   *)
(* callers ProactivePrivateChatAction.execute and                          *)
(* PrivateChatCommand.execute.                                             *)
(*                                                                         *)
(* Time is counted in ticks of 1/TicksPerSec second, so that time.time()   *)
(* has a sub-second part; cooldown_seconds is a whole number of seconds.   *)
(***************************************************************************)
EXTENDS Integers, FiniteSets, Sequences, TLC

\* ---------------------------------------------------------------- bounds
TicksPerSec == 2
MaxCooldown == 2
MaxClock == 5

Tasks == {"t1", "t2"}
Users == {"42", "7"}
Platforms == {"qq", "wx"}

\* The host's conversation-stream registry: user "7" has no stream on "wx".
StreamRegistry == {<<"42", "qq">>, <<"42", "wx">>, <<"7", "qq">>}

\* ----------------------------------------------------------------- state
VARIABLES
    clock,              \* time.time(), in ticks
    cooldown_seconds,   \* config value general.cooldown_seconds
    streams,            \* pairs <<user_id, platform>> chat_api has a stream for
    cooldowns,          \* PrivateChatCooldown._cooldowns: user_id -> last send time
    pc,                 \* per task: "idle", "sending" (awaiting the transport),
                        \* "done" (returned), "crashed" (an exception left the call)
    call,               \* per task: the arguments of its send_private_message call
    sent,               \* history: user_id -> time its latest delivery succeeded
    seen,               \* history, per task: sent[user_id] when its cooldown check
                        \* ran, Never when no delivery had succeeded by then
    trace,              \* per task: which collaborators the call has invoked
    ret,                \* per task: the (success, detail) the call returned
    enabled,            \* config value general.enabled
    only_known_users,   \* config value smart_chat.only_known_users
    epc,                \* per task: position in its entry point: "none", "resolving"
                        \* (awaiting the name lookup), "naming" (awaiting the
                        \* nickname lookup), "dispatched", "returned" (failed early)
    req,                \* per task: the request its entry point is serving
    etrace,             \* per task: which lookups the entry point has made
    gate,               \* per task: what is_user_known was given and answered
    eret,               \* per task: the failure detail of an early return
    via                 \* history: user_id -> the entry point and platform of
                        \* its latest successful delivery

\* the state of the tracker and the dispatcher
dvars == <<clock, cooldown_seconds, streams, cooldowns, sent, seen, pc, call, trace, ret>>

\* the state of the entry points
evars == <<enabled, only_known_users, epc, req, etrace, gate, eret, via>>

vars == <<clock, cooldown_seconds, streams, cooldowns, sent, seen, pc, call, trace, ret,
          enabled, only_known_users, epc, req, etrace, gate, eret, via>>

\* marks "no delivery yet" in the history variables
Never == 0 - 1

NoCall == [user_id |-> "", platform |-> ""]
NoTrace == [lookup |-> FALSE, transport |-> FALSE, raised |-> FALSE]
NoRet == [success |-> FALSE, detail |-> "", remaining |-> 0]
NoReq == [entry |-> "", target_user_id |-> "", platform |-> ""]
NoETrace == [resolve |-> FALSE, known |-> FALSE, nickname |-> FALSE]
NoGate == [checked |-> FALSE, profile |-> "", fault |-> FALSE, known |-> FALSE]

\* --------------------------------------------------- PrivateChatCooldown
\* dict.get(key, default)
Get(d, key, default) == IF key \in DOMAIN d THEN d[key] ELSE default

\* int(x) of the float x = ticks / TicksPerSec: truncation toward zero
IntOfTicks(ticks) ==
    IF ticks >= 0 THEN ticks \div TicksPerSec ELSE -((-ticks) \div TicksPerSec)

\* math.ceil of the float ticks / TicksPerSec
CeilOfTicks(ticks) == -((-ticks) \div TicksPerSec)

Max(a, b) == IF a >= b THEN a ELSE b

\* get_remaining_time without the clamp at zero
get_remaining_time_unclamped(user_id, cooldown, now) ==
    LET last == Get(cooldowns, user_id, 0)
        remaining == cooldown * TicksPerSec - (now - last)
    IN  IntOfTicks(remaining)

\* get_remaining_time(user_id, cooldown_seconds) evaluated when time.time() = now
get_remaining_time(user_id, cooldown, now) ==
    LET last == Get(cooldowns, user_id, 0)
        remaining == cooldown * TicksPerSec - (now - last)
    IN  Max(0, IntOfTicks(remaining))

\* can_send written as "no whole second remains"
can_send_by_remaining(user_id, cooldown, now) ==
    get_remaining_time(user_id, cooldown, now) = 0

\* can_send with a strict comparison
can_send_strict(user_id, cooldown, now) ==
    LET last == Get(cooldowns, user_id, 0)
    IN  now - last > cooldown * TicksPerSec

\* can_send with the operands of the subtraction swapped
can_send_reversed(user_id, cooldown, now) ==
    LET last == Get(cooldowns, user_id, 0)
    IN  last - now >= cooldown * TicksPerSec

\* can_send(user_id, cooldown_seconds) evaluated when time.time() = now
can_send(user_id, cooldown, now) ==
    LET last == Get(cooldowns, user_id, 0)
    IN  now - last >= cooldown * TicksPerSec

\* record_send storing the default of the lookups instead of the time
record_send_default(user_id, now) ==
    [u \in DOMAIN cooldowns \cup {user_id} |->
        IF u = user_id THEN 0 ELSE cooldowns[u]]

\* record_send stamping every entry of the map, not only the user's
record_send_all(user_id, now) == [u \in DOMAIN cooldowns \cup {user_id} |-> now]

\* record_send rebuilding the map instead of updating it
record_send_rebuild(user_id, now) == [u \in {user_id} |-> now]

\* the map after record_send(user_id) evaluated when time.time() = now
record_send(user_id, now) ==
    [u \in DOMAIN cooldowns \cup {user_id} |->
        IF u = user_id THEN now ELSE cooldowns[u]]

\* --------------------------------------------------------------- chat_api
\* a stream lookup that forgets the platform
get_stream_by_user_id_any_platform(user_id, platform) ==
    \E p \in Platforms : <<user_id, p>> \in streams

\* chat_api.get_stream_by_user_id(user_id, platform) is not None
get_stream_by_user_id(user_id, platform) == <<user_id, platform>> \in streams

\* ------------------------------------------------- send_private_message
\* a call without the except clause: the fault leaves the call
OnException_propagate(t) ==
    /\ pc' = [pc EXCEPT ![t] = "crashed"]
    /\ ret' = ret

\* the except clause of send_private_message: the fault becomes a result
OnException(t) ==
    /\ pc' = [pc EXCEPT ![t] = "done"]
    /\ ret' = [ret EXCEPT ![t] = [success |-> FALSE, detail |-> "error", remaining |-> 0]]

\* a call whose cooldown check guards one platform only
send_private_message_one_platform(t, user_id, platform, dt, fault) ==
    /\ pc[t] = "idle"
    /\ call' = [call EXCEPT ![t] = [user_id |-> user_id, platform |-> platform]]
    /\ seen' = [seen EXCEPT ![t] = Get(sent, user_id, Never)]
    /\ UNCHANGED <<cooldown_seconds, streams, cooldowns, sent>>
    /\ IF platform = "qq" /\ ~can_send(user_id, cooldown_seconds, clock)
       THEN /\ clock + dt <= MaxClock
            /\ ~fault
            /\ clock' = clock + dt
            /\ pc' = [pc EXCEPT ![t] = "done"]
            /\ trace' = [trace EXCEPT ![t] = NoTrace]
            /\ ret' = [ret EXCEPT ![t] =
                  [success |-> FALSE, detail |-> "cooldown",
                   remaining |-> get_remaining_time(user_id, cooldown_seconds, clock + dt)]]
       ELSE /\ dt = 0
            /\ clock' = clock
            /\ IF fault
               THEN /\ trace' = [trace EXCEPT ![t] =
                          [lookup |-> TRUE, transport |-> FALSE, raised |-> TRUE]]
                    /\ OnException(t)
               ELSE IF ~get_stream_by_user_id(user_id, platform)
               THEN /\ trace' = [trace EXCEPT ![t] =
                          [lookup |-> TRUE, transport |-> FALSE, raised |-> FALSE]]
                    /\ pc' = [pc EXCEPT ![t] = "done"]
                    /\ ret' = [ret EXCEPT ![t] =
                          [success |-> FALSE, detail |-> "no_stream", remaining |-> 0]]
               ELSE /\ trace' = [trace EXCEPT ![t] =
                          [lookup |-> TRUE, transport |-> TRUE, raised |-> FALSE]]
                    /\ pc' = [pc EXCEPT ![t] = "sending"]
                    /\ ret' = ret

\* The call up to its first suspension point: cooldown check, stream lookup
\* and the start of the transport call run without yielding to other tasks.
\* dt is the time that passes between the clock read of can_send and the
\* clock read of get_remaining_time; fault is whether the lookup raises.
send_private_message(t, user_id, platform, dt, fault) ==
    /\ pc[t] = "idle"
    /\ call' = [call EXCEPT ![t] = [user_id |-> user_id, platform |-> platform]]
    /\ seen' = [seen EXCEPT ![t] = Get(sent, user_id, Never)]
    /\ UNCHANGED <<cooldown_seconds, streams, cooldowns, sent>>
    /\ IF ~can_send(user_id, cooldown_seconds, clock)
       THEN /\ clock + dt <= MaxClock
            /\ ~fault
            /\ clock' = clock + dt
            /\ pc' = [pc EXCEPT ![t] = "done"]
            /\ trace' = [trace EXCEPT ![t] = NoTrace]
            /\ ret' = [ret EXCEPT ![t] =
                  [success |-> FALSE, detail |-> "cooldown",
                   remaining |-> get_remaining_time(user_id, cooldown_seconds, clock + dt)]]
       ELSE /\ dt = 0
            /\ clock' = clock
            /\ IF fault
               THEN /\ trace' = [trace EXCEPT ![t] =
                          [lookup |-> TRUE, transport |-> FALSE, raised |-> TRUE]]
                    /\ OnException(t)
               ELSE IF ~get_stream_by_user_id(user_id, platform)
               THEN /\ trace' = [trace EXCEPT ![t] =
                          [lookup |-> TRUE, transport |-> FALSE, raised |-> FALSE]]
                    /\ pc' = [pc EXCEPT ![t] = "done"]
                    /\ ret' = [ret EXCEPT ![t] =
                          [success |-> FALSE, detail |-> "no_stream", remaining |-> 0]]
               ELSE /\ trace' = [trace EXCEPT ![t] =
                          [lookup |-> TRUE, transport |-> TRUE, raised |-> FALSE]]
                    /\ pc' = [pc EXCEPT ![t] = "sending"]
                    /\ ret' = ret

\* send_api.text_to_stream returns to the suspended call: result is
\* "success", "failure" (a false return value) or "raise".
TransportReturn(t, result) ==
    /\ pc[t] = "sending"
    /\ UNCHANGED <<clock, cooldown_seconds, streams, call, seen>>
    /\ sent' = IF result = "success"
               THEN [u \in DOMAIN sent \cup {call[t].user_id} |->
                        IF u = call[t].user_id THEN clock ELSE sent[u]]
               ELSE sent
    /\ trace' = [trace EXCEPT ![t].raised = (result = "raise")]
    /\ CASE result = "success" ->
              /\ cooldowns' = record_send(call[t].user_id, clock)
              /\ pc' = [pc EXCEPT ![t] = "done"]
              /\ ret' = [ret EXCEPT ![t] =
                    [success |-> TRUE, detail |-> "sent", remaining |-> 0]]
         [] result = "failure" ->
              /\ cooldowns' = cooldowns
              /\ pc' = [pc EXCEPT ![t] = "done"]
              /\ ret' = [ret EXCEPT ![t] =
                    [success |-> FALSE, detail |-> "send_failed", remaining |-> 0]]
         [] OTHER ->
              /\ cooldowns' = cooldowns
              /\ OnException(t)

\* The caller takes the result; the task is free for the next request.
Finish(t) ==
    /\ pc[t] = "done"
    /\ pc' = [pc EXCEPT ![t] = "idle"]
    /\ call' = [call EXCEPT ![t] = NoCall]
    /\ seen' = [seen EXCEPT ![t] = Never]
    /\ trace' = [trace EXCEPT ![t] = NoTrace]
    /\ ret' = [ret EXCEPT ![t] = NoRet]
    /\ UNCHANGED <<clock, cooldown_seconds, streams, cooldowns, sent>>

\* Real time passes.
Tick ==
    /\ clock < MaxClock
    /\ clock' = clock + 1
    /\ UNCHANGED <<cooldown_seconds, streams, cooldowns, sent, seen, pc, call, trace, ret>>

Init ==
    /\ clock \in 0..MaxClock
    /\ cooldown_seconds \in 0..MaxCooldown
    /\ streams = StreamRegistry
    /\ cooldowns = << >>
    /\ pc = [t \in Tasks |-> "idle"]
    /\ call = [t \in Tasks |-> NoCall]
    /\ sent = << >>
    /\ seen = [t \in Tasks |-> Never]
    /\ trace = [t \in Tasks |-> NoTrace]
    /\ ret = [t \in Tasks |-> NoRet]
    /\ enabled = TRUE
    /\ only_known_users = TRUE
    /\ epc = [t \in Tasks |-> "none"]
    /\ req = [t \in Tasks |-> NoReq]
    /\ etrace = [t \in Tasks |-> NoETrace]
    /\ gate = [t \in Tasks |-> NoGate]
    /\ eret = [t \in Tasks |-> ""]
    /\ via = << >>

Send ==
    \E t \in Tasks, user_id \in Users, platform \in Platforms,
       dt \in 0..1, fault \in BOOLEAN :
        send_private_message(t, user_id, platform, dt, fault)

Return ==
    \E t \in Tasks, result \in {"success", "failure", "raise"} :
        TransportReturn(t, result)

Done == \E t \in Tasks : Finish(t)

Next ==
    \/ Send /\ UNCHANGED evars
    \/ Return /\ UNCHANGED evars
    \/ Done /\ UNCHANGED evars
    \/ Tick /\ UNCHANGED evars

Spec == Init /\ [][Next]_vars

\* ---------------------------------------------------------- entry points
DEFAULT_PLATFORM == "qq"

\* the task on which the host runs the entry points, one request after the
\* other; concurrent calls of the dispatcher are the subject of Spec
EntryTasks == {"t1"}

\* display names the policy engine may pass instead of an id
Names == {"alice"}

\* str.isdigit() of a target
isdigit(target) == target \in Users

\* is_user_known without the stream fallback
is_user_known_profile_only(platform, user_id, profile, fault) ==
    profile = "found"

\* is_user_known with both lookups inside one try block
is_user_known_one_try(platform, user_id, profile, fault) ==
    IF profile = "raise" THEN FALSE
    ELSE IF profile = "found" THEN TRUE
    ELSE IF fault THEN FALSE
    ELSE get_stream_by_user_id(user_id, platform)

\* is_user_known(platform, user_id): profile is what person_api.get_person_id
\* does ("found", "none" or "raise"), fault is whether the stream lookup raises
is_user_known(platform, user_id, profile, fault) ==
    IF profile = "found" THEN TRUE
    ELSE IF fault THEN FALSE
    ELSE get_stream_by_user_id(user_id, platform)

\* the entry point of task t moves on; the dispatcher is not touched
EntryStep(t, position, request, lookups, answer, detail) ==
    /\ epc' = [epc EXCEPT ![t] = position]
    /\ req' = [req EXCEPT ![t] = request]
    /\ etrace' = [etrace EXCEPT ![t] = lookups]
    /\ gate' = [gate EXCEPT ![t] = answer]
    /\ eret' = [eret EXCEPT ![t] = detail]
    /\ UNCHANGED <<enabled, only_known_users, via>>
    /\ UNCHANGED dvars

\* the known-user gate that lets every target through
KnownGate_open(t, request, lookups, profile, fault) ==
    /\ profile = "none"
    /\ ~fault
    /\ EntryStep(t, "naming", request, [lookups EXCEPT !.nickname = TRUE], NoGate, "")

\* ProactivePrivateChatAction.execute from the only_known_users check to the
\* awaited nickname lookup. The lookups the branch taken does not make are
\* pinned to "none" and FALSE.
KnownGate(t, request, lookups, profile, fault) ==
    IF only_known_users
    THEN LET known == is_user_known(request.platform, request.target_user_id,
                                    profile, fault)
             answer == [checked |-> TRUE, profile |-> profile, fault |-> fault,
                        known |-> known]
         IN  /\ profile = "found" => ~fault
             /\ IF known
                THEN EntryStep(t, "naming", request,
                               [lookups EXCEPT !.known = TRUE, !.nickname = TRUE],
                               answer, "")
                ELSE EntryStep(t, "returned", request,
                               [lookups EXCEPT !.known = TRUE], answer, "not_known")
    ELSE /\ profile = "none"
         /\ ~fault
         /\ EntryStep(t, "naming", request, [lookups EXCEPT !.nickname = TRUE],
                      NoGate, "")

\* the start of the action with the enabled check left out
ActionExecute_no_switch(t, target, platform, ctx_user, person, profile, fault) ==
    /\ epc[t] = "none"
    /\ pc[t] = "idle"
    /\ target \in Users
    /\ ctx_user = ""
    /\ person = "none"
    /\ KnownGate(t, [entry |-> "action", target_user_id |-> target,
                     platform |-> platform], NoETrace, profile, fault)

\* the start of the action that falls back to the name as the id
ActionExecute_name_as_id(t, target, platform, ctx_user, person, profile, fault) ==
    /\ epc[t] = "none"
    /\ pc[t] = "idle"
    /\ enabled
    /\ target # ""
    /\ ctx_user = ""
    /\ person = "none"
    /\ KnownGate(t, [entry |-> "action", target_user_id |-> target,
                     platform |-> platform],
                 [NoETrace EXCEPT !.resolve = ~isdigit(target)], profile, fault)

\* ProactivePrivateChatAction.execute up to its first suspension point. target
\* is action_data["target_user_id"], platform is self.platform, ctx_user is
\* self.user_id, person is what person_api.get_person_id_by_name does. The
\* inputs the branch taken does not read are pinned to "", "none" and FALSE.
ActionExecute(t, target, platform, ctx_user, person, profile, fault) ==
    /\ epc[t] = "none"
    /\ pc[t] = "idle"
    /\ LET request == [entry |-> "action", target_user_id |-> target,
                       platform |-> platform]
           unread == ctx_user = "" /\ person = "none" /\ profile = "none" /\ ~fault
       IN  IF ~enabled
           THEN /\ unread
                /\ EntryStep(t, "returned", request, NoETrace, NoGate, "disabled")
           ELSE IF target # "" /\ ~isdigit(target)
           THEN /\ ctx_user = "" /\ profile = "none" /\ ~fault
                /\ IF person = "found"
                   THEN EntryStep(t, "resolving", request,
                                  [NoETrace EXCEPT !.resolve = TRUE], NoGate, "")
                   ELSE EntryStep(t, "returned", request,
                                  [NoETrace EXCEPT !.resolve = TRUE], NoGate,
                                  "user_not_found")
           ELSE IF target = "" /\ ctx_user = ""
           THEN /\ unread
                /\ EntryStep(t, "returned", request, NoETrace, NoGate, "no_target")
           ELSE /\ person = "none"
                /\ target # "" => ctx_user = ""
                /\ KnownGate(t, [request EXCEPT !.target_user_id =
                                     IF target = "" THEN ctx_user ELSE target],
                             NoETrace, profile, fault)

\* get_user_id_by_name resumes after await person_api.get_person_value: value
\* is the user id of the profile, "none" (no such attribute) or "raise"; the
\* action goes on to the known-user gate or returns "user not found".
ResolveReturn(t, value, profile, fault) ==
    /\ epc[t] = "resolving"
    /\ IF value \in Users
       THEN KnownGate(t, [req[t] EXCEPT !.target_user_id = value], etrace[t],
                      profile, fault)
       ELSE /\ profile = "none"
            /\ ~fault
            /\ EntryStep(t, "returned", req[t], etrace[t], NoGate, "user_not_found")

\* PrivateChatCommand.execute up to the awaited nickname lookup: the pattern
\* admits digits only, the platform is the default, no config flag is read
CommandExecute(t, target) ==
    /\ epc[t] = "none"
    /\ pc[t] = "idle"
    /\ EntryStep(t, "naming",
                 [entry |-> "command", target_user_id |-> target,
                  platform |-> DEFAULT_PLATFORM],
                 [NoETrace EXCEPT !.nickname = TRUE], NoGate, "")

\* the nickname lookup is over; the entry point calls send_private_message
Dispatch(t, dt, fault) ==
    /\ epc[t] = "naming"
    /\ send_private_message(t, req[t].target_user_id, req[t].platform, dt, fault)
    /\ epc' = [epc EXCEPT ![t] = "dispatched"]
    /\ UNCHANGED <<enabled, only_known_users, req, etrace, gate, eret, via>>

\* the awaited send_private_message of the entry point resumes with the
\* transport's result
DispatchReturn(t, result) ==
    /\ epc[t] = "dispatched"
    /\ TransportReturn(t, result)
    /\ via' = IF result = "success"
              THEN [u \in DOMAIN via \cup {call[t].user_id} |->
                       IF u = call[t].user_id
                       THEN [entry |-> req[t].entry, platform |-> call[t].platform]
                       ELSE via[u]]
              ELSE via
    /\ UNCHANGED <<enabled, only_known_users, epc, req, etrace, gate, eret>>

\* the entry point has returned its result to the host
EntryReturn(t) ==
    /\ \/ epc[t] = "returned" /\ UNCHANGED dvars
       \/ epc[t] = "dispatched" /\ Finish(t)
    /\ epc' = [epc EXCEPT ![t] = "none"]
    /\ req' = [req EXCEPT ![t] = NoReq]
    /\ etrace' = [etrace EXCEPT ![t] = NoETrace]
    /\ gate' = [gate EXCEPT ![t] = NoGate]
    /\ eret' = [eret EXCEPT ![t] = ""]
    /\ UNCHANGED <<enabled, only_known_users, via>>

EntryInit ==
    /\ clock \in 0..MaxClock
    /\ cooldown_seconds \in 0..MaxCooldown
    /\ streams = StreamRegistry
    /\ cooldowns = << >>
    /\ pc = [t \in Tasks |-> "idle"]
    /\ call = [t \in Tasks |-> NoCall]
    /\ sent = << >>
    /\ seen = [t \in Tasks |-> Never]
    /\ trace = [t \in Tasks |-> NoTrace]
    /\ ret = [t \in Tasks |-> NoRet]
    /\ enabled \in BOOLEAN
    /\ only_known_users \in BOOLEAN
    /\ epc = [t \in Tasks |-> "none"]
    /\ req = [t \in Tasks |-> NoReq]
    /\ etrace = [t \in Tasks |-> NoETrace]
    /\ gate = [t \in Tasks |-> NoGate]
    /\ eret = [t \in Tasks |-> ""]
    /\ via = << >>

Action ==
    \E t \in EntryTasks, target \in {""} \cup Users \cup Names,
       platform \in Platforms, ctx_user \in {"", "42"},
       person \in {"found", "none", "raise"},
       profile \in {"found", "none", "raise"}, fault \in BOOLEAN :
        ActionExecute(t, target, platform, ctx_user, person, profile, fault)

Resolved ==
    \E t \in EntryTasks, value \in Users \cup {"none", "raise"},
       profile \in {"found", "none", "raise"}, fault \in BOOLEAN :
        ResolveReturn(t, value, profile, fault)

Command == \E t \in EntryTasks, target \in Users : CommandExecute(t, target)

Dispatched == \E t \in EntryTasks, dt \in 0..1, fault \in BOOLEAN : Dispatch(t, dt, fault)

Delivered ==
    \E t \in EntryTasks, result \in {"success", "failure", "raise"} :
        DispatchReturn(t, result)

Returned == \E t \in EntryTasks : EntryReturn(t)

EntryNext ==
    \/ Action
    \/ Resolved
    \/ Command
    \/ Dispatched
    \/ Delivered
    \/ Returned
    \/ Tick /\ UNCHANGED evars

EntrySpec == EntryInit /\ [][EntryNext]_vars

\* ------------------------------------------------------- steps of a call
\* the cooldown window, in ticks
Window == cooldown_seconds * TicksPerSec

\* this step is task t entering send_private_message
Called(t) == pc[t] = "idle" /\ pc'[t] # "idle"

\* this step is the transport call of task t coming back
Resumed(t) == pc[t] = "sending" /\ pc'[t] # "sending"

\* -------------------------------------------------------------- claims
\* C1: for a cooldown C > 0 and a user whose last successful send is recorded
\* at time t, a send_private_message call whose cooldown check runs before
\* t + C returns failure (refused for cooldown), looks up no stream, invokes
\* no transport and leaves the cooldown map as it was.
C1_CooldownRefuses ==
    [][\A t \in Tasks :
        LET u == call'[t].user_id IN
        (/\ Called(t)
         /\ cooldown_seconds > 0
         /\ u \in DOMAIN cooldowns
         /\ clock < cooldowns[u] + Window)
        => /\ pc'[t] = "done"
           /\ ret'[t].success = FALSE
           /\ ret'[t].detail = "cooldown"
           /\ trace'[t].lookup = FALSE
           /\ trace'[t].transport = FALSE
           /\ cooldowns' = cooldowns]_vars

C1_Witness ==
    \E t \in Tasks :
        /\ pc[t] = "done"
        /\ ret[t].detail = "cooldown"
        /\ cooldown_seconds > 0
        /\ call[t].user_id \in DOMAIN cooldowns
        /\ clock < cooldowns[call[t].user_id] + Window

\* C2: the cooldown map changes only in a step where a transport delivery
\* returns success, and then exactly the entry of the delivery's user is set
\* to the current time; a delivery that returns failure leaves the map
\* unchanged; no step removes an entry.
C2_RecordOnlyOnSuccess ==
    [][/\ DOMAIN cooldowns \subseteq DOMAIN cooldowns'
       /\ cooldowns' # cooldowns =>
            \E t \in Tasks :
                /\ Resumed(t)
                /\ ret'[t].success
                /\ cooldowns' = [u \in DOMAIN cooldowns \cup {call[t].user_id} |->
                                    IF u = call[t].user_id THEN clock' ELSE cooldowns[u]]
       /\ \A t \in Tasks :
            Resumed(t) =>
                IF ret'[t].success
                THEN /\ call[t].user_id \in DOMAIN cooldowns'
                     /\ cooldowns'[call[t].user_id] = clock'
                ELSE cooldowns' = cooldowns]_vars

\* a second user is recorded while an earlier record is kept, and a failed
\* delivery has returned
C2_Witness ==
    /\ DOMAIN cooldowns = Users
    /\ \E u, v \in Users : cooldowns[u] < cooldowns[v]
    /\ \E t \in Tasks : pc[t] = "done" /\ ret[t].detail = "send_failed"

\* C3: a send_private_message call for a user and platform with no
\* registered stream returns failure, never invokes the transport, and the
\* cooldown map after the call equals the map before it.
C3_NoStreamNoSend ==
    [][\A t \in Tasks :
        (Called(t) /\ <<call'[t].user_id, call'[t].platform>> \notin streams)
        => /\ pc'[t] = "done"
           /\ ret'[t].success = FALSE
           /\ trace'[t].transport = FALSE
           /\ cooldowns' = cooldowns]_vars

C3_Witness ==
    \E t \in Tasks :
        /\ pc[t] = "done"
        /\ <<call[t].user_id, call[t].platform>> \notin streams
        /\ ret[t].detail = "no_stream"

\* C4: when the stream lookup or the transport call raises, the call returns
\* a (False, detail) result, the exception does not leave the call, and the
\* cooldown map is unchanged, so the eligibility of every user is what it
\* was before the failed attempt.
C4_ExceptionBecomesFailure ==
    [][\A t \in Tasks :
        (trace'[t].raised /\ ~trace[t].raised)
        => /\ pc'[t] = "done"
           /\ ret'[t].success = FALSE
           /\ ret'[t].detail = "error"
           /\ cooldowns' = cooldowns
           /\ \A u \in Users, now \in 0..MaxClock :
                can_send(u, cooldown_seconds, now)' = can_send(u, cooldown_seconds, now)]_vars

\* both kinds of fault have been handled: one in the lookup, one in the transport
C4_Witness ==
    \E t1, t2 \in Tasks :
        /\ pc[t1] = "done" /\ trace[t1].raised /\ ~trace[t1].transport
        /\ pc[t2] = "done" /\ trace[t2].raised /\ trace[t2].transport

\* C5 as stated: every successful send to a user is recorded at least the
\* cooldown after the previous successful send to that user.
C5_AnyTwoSendsApart ==
    [][\A t \in Tasks :
        LET u == call[t].user_id IN
        (Resumed(t) /\ ret'[t].success /\ u \in DOMAIN sent)
        => clock' - sent[u] >= Window]_vars

\* C5, amended: a successful send to a user is recorded at least the cooldown
\* after every successful send to that user that had been recorded when its
\* own cooldown check ran (the two calls do not overlap).
C5_NonOverlappingSendsApart ==
    [][\A t \in Tasks :
        (Resumed(t) /\ ret'[t].success /\ seen[t] # Never)
        => clock' - seen[t] >= Window]_vars

\* a second send to a user has succeeded a full window after the first
C5_Witness ==
    \E t \in Tasks :
        /\ pc[t] = "done"
        /\ ret[t].success
        /\ cooldown_seconds > 0
        /\ seen[t] # Never
        /\ sent[call[t].user_id] - seen[t] >= Window

\* this step records a successful send to user u
Recorded(u) == \E t \in Tasks : Resumed(t) /\ ret'[t].success /\ call[t].user_id = u

\* C6 as stated: can_send(U, C) is true iff U has no cooldown record or the
\* time since the record is at least C; a user never sent to is eligible at
\* every time and for every C.
C6_CanSendIffNoRecordOrElapsed ==
    \A u \in Users :
        can_send(u, cooldown_seconds, clock)
            <=> (u \notin DOMAIN cooldowns \/ clock - cooldowns[u] >= Window)

\* C7: for C > 0, from the moment a send to U is recorded, can_send(U, C) is
\* false while less than C seconds have passed since that record and true
\* once C seconds or more have passed.
C7_FalseThenTrueAfterWindow ==
    \A u \in DOMAIN sent :
        cooldown_seconds > 0 =>
            /\ clock - sent[u] < Window => ~can_send(u, cooldown_seconds, clock)
            /\ clock - sent[u] >= Window => can_send(u, cooldown_seconds, clock)

\* one user is just recorded and still cooling down, another is past its window
C7_Witness ==
    /\ cooldown_seconds > 0
    /\ \E u \in DOMAIN sent : clock = sent[u] /\ ~can_send(u, cooldown_seconds, clock)
    /\ \E v \in DOMAIN sent : clock - sent[v] >= Window /\ can_send(v, cooldown_seconds, clock)

\* C8 as stated: at one clock value, can_send(U, C) is true exactly when
\* get_remaining_time(U, C) is 0.
C8_CanSendIffRemainingZero ==
    \A u \in Users :
        can_send(u, cooldown_seconds, clock)
            <=> get_remaining_time(u, cooldown_seconds, clock) = 0

\* C9 as stated: get_remaining_time(U, C) is max(0, ceil(C - elapsed)) for a
\* recorded user and 0 for a user with no record.
C9_RemainingIsCeil ==
    \A u \in Users :
        get_remaining_time(u, cooldown_seconds, clock) =
            IF u \in DOMAIN cooldowns
            THEN Max(0, CeilOfTicks(Window - (clock - cooldowns[u])))
            ELSE 0

\* C10: over every step that leaves the record of U as it is, the value of
\* get_remaining_time(U, C) does not increase; it is never negative; and it
\* is 0 at every time at or after the record of U plus C.
C10_RemainingNonIncreasing ==
    [][\A u \in Users :
        LET before == get_remaining_time(u, cooldown_seconds, clock)
            after == get_remaining_time(u, cooldown_seconds, clock')
        IN  /\ before >= 0
            /\ Get(cooldowns', u, Never) = Get(cooldowns, u, Never) => after <= before
            /\ (u \in DOMAIN sent /\ clock >= sent[u] + Window) => before = 0]_vars

\* one user's remaining time is still positive, another's has reached 0
\* at its boundary
C10_Witness ==
    /\ cooldown_seconds > 0
    /\ \E u \in DOMAIN sent : get_remaining_time(u, cooldown_seconds, clock) > 0
    /\ \E v \in DOMAIN sent :
          /\ clock = sent[v] + Window
          /\ get_remaining_time(v, cooldown_seconds, clock) = 0

\* C11: a step of a call for user U (its cooldown check or its record)
\* leaves the record of every other user V as it was, and with it
\* can_send(V, C) and get_remaining_time(V, C) at every clock value.
C11_OtherUsersUntouched ==
    [][\A t \in Tasks, v \in Users :
        (\/ Called(t) /\ call'[t].user_id # v
         \/ Resumed(t) /\ call[t].user_id # v)
        => /\ Get(cooldowns', v, Never) = Get(cooldowns, v, Never)
           /\ \A now \in 0..MaxClock :
                /\ can_send(v, cooldown_seconds, now)' = can_send(v, cooldown_seconds, now)
                /\ get_remaining_time(v, cooldown_seconds, now)'
                       = get_remaining_time(v, cooldown_seconds, now)]_vars

\* a send to U was recorded while V, recorded earlier, is still cooling down
C11_Witness ==
    \E t \in Tasks, v \in DOMAIN cooldowns :
        /\ pc[t] = "done"
        /\ ret[t].success
        /\ call[t].user_id # v
        /\ cooldowns[v] < cooldowns[call[t].user_id]
        /\ ~can_send(v, cooldown_seconds, clock)

\* C12: the answer of is_user_known(platform, id) is true iff the profile
\* lookup returns a profile or the stream lookup returns a stream for
\* (id, platform), a lookup that raises counting as "no" for its own branch
\* only: a raising or empty profile lookup with a stream gives true, and the
\* answer is false only when both branches say no.
C12_KnownIffProfileOrStream ==
    \A t \in EntryTasks :
        gate[t].checked =>
            LET profile_says_yes == gate[t].profile = "found"
                stream_says_yes ==
                    /\ ~gate[t].fault
                    /\ <<req[t].target_user_id, req[t].platform>> \in streams
            IN  gate[t].known <=> (profile_says_yes \/ stream_says_yes)

\* the profile lookup raised and the stream alone made the user known
C12_Witness ==
    \E t \in EntryTasks :
        /\ gate[t].checked
        /\ gate[t].profile = "raise"
        /\ ~gate[t].fault
        /\ <<req[t].target_user_id, req[t].platform>> \in streams
        /\ gate[t].known
        /\ epc[t] = "naming"

\* C13 as stated: while general.enabled is false, no step of either entry
\* point calls the transport, delivers a message or writes a cooldown record.
C13_DisabledDeliversNothing ==
    [][~enabled =>
        /\ cooldowns' = cooldowns
        /\ sent' = sent
        /\ \A t \in Tasks : trace'[t].transport => trace[t].transport]_vars

\* this step is task t entering ProactivePrivateChatAction.execute
Triggered(t) == epc[t] = "none" /\ epc'[t] # "none" /\ req'[t].entry = "action"

\* C14: with general.enabled false the autonomous trigger returns failure in
\* its first step, for every target: no name resolution, no known-user
\* check, no display-name lookup, no stream lookup, no transport call and no
\* cooldown read or write; the request never reaches the dispatcher.
C14_DisabledTriggerStopsFirst ==
    [][\A t \in EntryTasks :
        /\ (Triggered(t) /\ ~enabled)
            => /\ epc'[t] = "returned"
               /\ eret'[t] = "disabled"
               /\ etrace'[t] = NoETrace
               /\ gate'[t] = NoGate
               /\ pc'[t] = "idle"
               /\ trace'[t] = NoTrace
               /\ cooldowns' = cooldowns
               /\ sent' = sent
        /\ (req[t].entry = "action" /\ ~enabled)
            => epc'[t] \in {"returned", "none"} /\ pc'[t] = "idle"]_vars

\* a disabled trigger has returned for a name it would otherwise resolve
C14_Witness ==
    \E t \in EntryTasks :
        /\ ~enabled
        /\ epc[t] = "returned"
        /\ eret[t] = "disabled"
        /\ req[t].entry = "action"
        /\ req[t].target_user_id \in Names
        /\ etrace[t] = NoETrace

\* C15: in the enabled autonomous trigger, once the resolution of a
\* non-numeric target is over and the target is still the name (no profile,
\* no user-id attribute, or a lookup exception), the trigger has returned
\* "user not found"; the name never reaches the known-user check, the
\* dispatcher, the transport or the cooldown map.
C15_UnresolvedNameFails ==
    [][\A t \in EntryTasks :
        /\ (/\ enabled
            /\ req'[t].entry = "action"
            /\ req'[t].target_user_id \in Names
            /\ epc'[t] # "resolving")
            => /\ epc'[t] = "returned"
               /\ eret'[t] = "user_not_found"
               /\ etrace'[t].resolve
               /\ ~etrace'[t].known
               /\ gate'[t] = NoGate
               /\ pc'[t] = "idle"
               /\ cooldowns' = cooldowns
        /\ call'[t].user_id \notin Names
        /\ DOMAIN cooldowns' \cap Names = {}]_vars

\* a trigger for a name has returned "user not found" while the user the
\* name could have stood for can be sent to
C15_Witness ==
    \E t \in EntryTasks :
        /\ enabled
        /\ epc[t] = "returned"
        /\ eret[t] = "user_not_found"
        /\ req[t].target_user_id \in Names
        /\ etrace[t].resolve
        /\ pc[t] = "idle"
        /\ cooldowns # << >>

\* C16: in the autonomous trigger with smart_chat.only_known_users true, a
\* request goes on to the dispatcher only with a true is_user_known answer
\* for its target; when the answer is false the trigger returns failure in
\* that step: the dispatcher is not invoked, no transport call is made and
\* no cooldown record is written.
C16_UnknownUserSkipped ==
    [][\A t \in EntryTasks :
        /\ (/\ only_known_users
            /\ req'[t].entry = "action"
            /\ epc'[t] \in {"naming", "dispatched"})
            => /\ gate'[t].checked
               /\ gate'[t].known
               /\ is_user_known(req'[t].platform, req'[t].target_user_id,
                                gate'[t].profile, gate'[t].fault)
        /\ (gate'[t].checked /\ ~gate'[t].known)
            => /\ epc'[t] = "returned"
               /\ eret'[t] = "not_known"
               /\ pc'[t] = "idle"
               /\ trace'[t] = NoTrace
               /\ cooldowns' = cooldowns
               /\ sent' = sent]_vars

\* a target with neither profile nor stream was turned away at the gate
C16_Witness ==
    \E t \in EntryTasks :
        /\ only_known_users
        /\ epc[t] = "returned"
        /\ eret[t] = "not_known"
        /\ gate[t].checked
        /\ ~gate[t].known
        /\ gate[t].profile = "none"
        /\ <<req[t].target_user_id, req[t].platform>> \notin streams
        /\ pc[t] = "idle"

\* C17: while one task awaits the transport for user U and no send to U has
\* been recorded since its cooldown check, a second call for U (on any
\* platform U has a stream on) passes the cooldown check too and reaches the
\* transport.
C17_SecondCallPassesCheck ==
    \A t1, t2 \in Tasks, p \in Platforms :
        (/\ t1 # t2
         /\ pc[t1] = "sending"
         /\ pc[t2] = "idle"
         /\ seen[t1] = Get(sent, call[t1].user_id, Never)
         /\ <<call[t1].user_id, p>> \in streams)
        => ENABLED (/\ send_private_message(t2, call[t1].user_id, p, 0, FALSE)
                    /\ pc'[t2] = "sending")

\* both tasks passed the check for one user before either recorded; the first
\* has delivered, the second can deliver inside the same window
C17_Witness ==
    \E t1, t2 \in Tasks :
        /\ t1 # t2
        /\ cooldown_seconds > 0
        /\ call[t1].user_id = call[t2].user_id
        /\ pc[t1] = "done" /\ ret[t1].success
        /\ pc[t2] = "sending"
        /\ seen[t1] = Never /\ seen[t2] = Never
        /\ clock < sent[call[t1].user_id] + Window
        /\ ENABLED (TransportReturn(t2, "success") /\ ret'[t2].success)

\* C18 as stated: a cooldown refusal that reports N remaining seconds has
\* N >= 1, and a retry N seconds after the refusal (no send to the user in
\* between) passes the cooldown check.
C18_ReportedWaitSuffices ==
    [][\A t \in Tasks :
        (Called(t) /\ ret'[t].detail = "cooldown")
        => /\ ret'[t].remaining >= 1
           /\ can_send(call'[t].user_id, cooldown_seconds,
                       clock' + ret'[t].remaining * TicksPerSec)]_vars

\* C19: the cooldown record is keyed by the user id alone: after a
\* successful send to U through either entry point and on any platform, a
\* send to U dispatched by either entry point, on any platform, before the
\* window has elapsed is refused for cooldown and reaches neither the stream
\* lookup nor the transport.
C19_CooldownSharedAcrossEntries ==
    [][\A t \in EntryTasks :
        LET u == call'[t].user_id IN
        (/\ Called(t)
         /\ cooldown_seconds > 0
         /\ u \in DOMAIN via
         /\ clock < sent[u] + Window)
        => /\ pc'[t] = "done"
           /\ ret'[t].success = FALSE
           /\ ret'[t].detail = "cooldown"
           /\ trace'[t].lookup = FALSE
           /\ trace'[t].transport = FALSE
           /\ cooldowns' = cooldowns]_vars

\* a send through one entry point was refused inside the window of a
\* delivery made through the other entry point on another platform
C19_Witness ==
    \E t \in EntryTasks :
        LET u == call[t].user_id IN
        /\ pc[t] = "done"
        /\ ret[t].detail = "cooldown"
        /\ u \in DOMAIN via
        /\ via[u].entry # req[t].entry
        /\ via[u].platform # call[t].platform
        /\ clock < sent[u] + Window

\* the known-user gate has turned the request of task t away
Blocked(t) == epc[t] = "returned" /\ eret[t] = "not_known"

\* the dispatcher, called now with the request of task t, would pass the
\* cooldown check, find the stream and start the transport call
Deliverable(t) ==
    ENABLED (/\ send_private_message(t, req[t].target_user_id, req[t].platform,
                                     0, FALSE)
             /\ pc'[t] = "sending")

TypeOK ==
    /\ clock \in 0..MaxClock
    /\ cooldown_seconds \in 0..MaxCooldown
    /\ DOMAIN cooldowns \subseteq Users
    /\ \A u \in DOMAIN cooldowns : cooldowns[u] \in 0..MaxClock
    /\ \A t \in Tasks : pc[t] \in {"idle", "sending", "done", "crashed"}
    /\ \A t \in Tasks : pc[t] = "idle" <=> call[t] = NoCall
    /\ enabled \in BOOLEAN
    /\ only_known_users \in BOOLEAN
    /\ \A t \in Tasks :
          epc[t] \in {"none", "resolving", "naming", "dispatched", "returned"}
    /\ \A t \in Tasks : epc[t] = "none" <=> req[t] = NoReq
    /\ \A t \in Tasks : epc[t] = "dispatched" => pc[t] # "idle"
    /\ DOMAIN via \subseteq DOMAIN sent
====
